---- MODULE Spec2Model ----
(***************************************************************************)
(* Model of the DEM viewer of src/main.rs: the ASC grid parser             *)
(* (read_asc_file), the grayscale, color and hillshade mappers, the        *)
(* compositor (blend_with_hillshade) and the mode dispatch of main.        *)
(*                                                                         *)
(* Elevations are integers, which f32 represents exactly; every f32        *)
(* operation whose rounding can change an output byte (the divisions and   *)
(* products of the grayscale mapper and of the compositor) is computed     *)
(* with its 24-bit round-to-nearest-even significand.                      *)
(***************************************************************************)
EXTENDS Integers, Sequences, FiniteSets, TLC

VARIABLES pc, file, mode, dem, ncols, nrows, image_view, error, probe, call, ret

vars == <<pc, file, mode, dem, ncols, nrows, image_view, error, probe, call, ret>>

(***************************************************************************)
(* Bounds and input alphabets.                                             *)
(***************************************************************************)
\* longest data section (in tokens) of an enumerated file
MaxTokens == 3
\* largest width and height of a grid handed directly to generate_hillshade
MaxDim == 3
\* longest color buffer and intensity buffer handed directly to the compositor
MaxRgbLen == 6
MaxShadeLen == 2

\* the sentinel every mapper hard-codes
NODATA == -99999

\* ncols / nrows written in the enumerated headers (all positive)
HeaderDims == {1, 2}
\* NODATA_value written in the enumerated headers
HeaderSentinels == {NODATA, 3}
\* elevations written in the data section
Elevations == {0, 3, 7}

None == [kind |-> "none"]

(***************************************************************************)
(* Tokens, lines and files.  A token is a number (an integer literal) or a *)
(* word (text no numeric parse accepts); a line is the sequence of its     *)
(* whitespace-separated tokens; a file is readable or not and has lines.   *)
(***************************************************************************)
Num(n) == [kind |-> "num", val |-> n]

Word == [kind |-> "word", val |-> 0]

DataTokens == {Num(v) : v \in Elevations \cup {NODATA}} \cup {Word}

RECURSIVE SeqsUpTo(_, _)
SeqsUpTo(S, n) ==
  IF n = 0 THEN {<<>>}
  ELSE LET shorter == SeqsUpTo(S, n - 1)
       IN  shorter \cup {Append(s, x) : s \in {t \in shorter : Len(t) = n - 1}, x \in S}

\* the data tokens laid out in rows of `width` tokens, as an ASC file has them
RECURSIVE DataLines(_, _)
DataLines(tokens, width) ==
  IF Len(tokens) = 0 THEN <<>>
  ELSE IF Len(tokens) <= width THEN <<tokens>>
  ELSE <<SubSeq(tokens, 1, width)>> \o DataLines(SubSeq(tokens, width + 1, Len(tokens)), width)

HeaderLines(c, r, s) ==
  << <<Word, c>>, <<Word, r>>, <<Word, Num(0)>>, <<Word, Num(0)>>, <<Word, Num(1)>>, <<Word, s>> >>

AscFile(lines) == [readable |-> TRUE, lines |-> lines]

WellFormedFiles ==
  {AscFile(HeaderLines(Num(c), Num(r), Num(s)) \o DataLines(t, c)) :
     c \in HeaderDims, r \in HeaderDims, s \in HeaderSentinels,
     t \in SeqsUpTo(DataTokens, MaxTokens)}

\* the 3x3 grid 1..9 of the end-to-end scenario, whole and with its last token cut
ScenarioTokens == [i \in 1..9 |-> Num(i)]

ScenarioFiles ==
  {AscFile(HeaderLines(Num(3), Num(3), Num(NODATA)) \o DataLines(SubSeq(ScenarioTokens, 1, n), 3)) :
     n \in {8, 9}}

BaseHeader == HeaderLines(Num(2), Num(1), Num(NODATA))

BaseData == << <<Num(0), Num(7)>> >>

\* a header cut short, or with one of its lines blank, without a value, or
\* with a value of the wrong kind
BadLines == {<<>>, <<Word>>, <<Word, Word>>, <<Word, Num(-1)>>}

MalformedFiles ==
  {AscFile(SubSeq(BaseHeader, 1, k)) : k \in 0..5}
  \cup {AscFile([BaseHeader EXCEPT ![i] = l] \o BaseData) : i \in 1..6, l \in BadLines}

UnreadableFiles == {[readable |-> FALSE, lines |-> <<>>]}

Files == WellFormedFiles \cup ScenarioFiles \cup MalformedFiles \cup UnreadableFiles

Modes == {"grayscale", "color", "hillshade", "color+hillshade", "slope"}

(***************************************************************************)
(* read_asc_file.  Its result is Ok (the buffer and the two dimensions),   *)
(* Err (an error value returned through `?`) or Panic (an unwrap of None   *)
(* aborts the process).                                                    *)
(***************************************************************************)
\* str::parse::<usize>
ParsesAsUsize(tok) == tok.kind = "num" /\ tok.val >= 0

\* str::parse::<f32>
ParsesAsF32(tok) == tok.kind = "num"

Ok(v) == [kind |-> "Ok", val |-> v, error |-> ""]

Err(e) == [kind |-> "Err", val |-> 0, error |-> e]

Panic(e) == [kind |-> "Panic", val |-> 0, error |-> e]

\* lines.next().unwrap()?.split_whitespace().last().unwrap().parse()? on the
\* i-th line: a missing line and a blank line panic, a bad value is an Err
HeaderValue(lines, i, type) ==
  IF Len(lines) < i THEN Panic("unwrap on None: no line")
  ELSE IF Len(lines[i]) = 0 THEN Panic("unwrap on None: no token")
  ELSE LET tok == lines[i][Len(lines[i])]
       IN  IF type = "usize"
           THEN IF ParsesAsUsize(tok) THEN Ok(tok.val) ELSE Err("ParseIntError")
           ELSE IF ParsesAsF32(tok) THEN Ok(tok.val) ELSE Err("ParseFloatError")

\* the hard-coded sentinel of the mappers in place of the declared one
ParseOrHardCoded(tok, nodata_value) ==
  IF ParsesAsF32(tok) THEN tok.val ELSE NODATA

\* val.parse().unwrap_or(nodata_value)
ParseOrNodata(tok, nodata_value) ==
  IF ParsesAsF32(tok) THEN tok.val ELSE nodata_value

\* for line in lines { for val in line.split_whitespace() { data.push(..) } }
RECURSIVE ReadData(_, _, _)
ReadData(lines, from, nodata_value) ==
  IF from > Len(lines) THEN <<>>
  ELSE [j \in 1..Len(lines[from]) |-> ParseOrNodata(lines[from][j], nodata_value)]
       \o ReadData(lines, from + 1, nodata_value)

Failed(r) == [kind |-> r.kind, data |-> <<>>, ncols |-> 0, nrows |-> 0, error |-> r.error]

read_asc_file(f) ==
  IF ~f.readable THEN Failed(Err("io::Error"))
  ELSE
    LET c == HeaderValue(f.lines, 1, "usize")
        r == HeaderValue(f.lines, 2, "usize")
        n == HeaderValue(f.lines, 6, "f32")
    IN  IF c.kind # "Ok" THEN Failed(c)
        ELSE IF r.kind # "Ok" THEN Failed(r)
        ELSE IF n.kind # "Ok" THEN Failed(n)
        ELSE [kind |-> "Ok", data |-> ReadData(f.lines, 7, n.val),
              ncols |-> c.val, nrows |-> r.val, error |-> ""]

\* the sentinel a file declares (the local nodata_value of read_asc_file)
DeclaredSentinel(f) == HeaderValue(f.lines, 6, "f32")

(***************************************************************************)
(* f32 arithmetic.  A positive f32 is the record [m, s] standing for       *)
(* m / 2^s with a 24-bit significand m; zero is [m |-> 0, s |-> 0].  Every *)
(* operation rounds to nearest, ties to even, as IEEE 754 does.            *)
(***************************************************************************)
F32Zero == [m |-> 0, s |-> 0]

\* binary long division until the quotient has 24 significant bits
RECURSIVE LongDiv(_, _, _, _)
LongDiv(q, rem, d, s) ==
  IF q >= 2^23 THEN [q |-> q, rem |-> rem, s |-> s]
  ELSE LongDiv(2 * q + (IF 2 * rem >= d THEN 1 ELSE 0),
               IF 2 * rem >= d THEN 2 * rem - d ELSE 2 * rem, d, s + 1)

\* n as f32 / d as f32, for integers 0 <= n < 2^23 and 0 < d < 2^23
F32Div(n, d) ==
  IF n = 0 THEN F32Zero
  ELSE LET r  == LongDiv(n \div d, n % d, d, 0)
           up == 2 * r.rem > d \/ (2 * r.rem = d /\ r.q % 2 = 1)
       IN  [m |-> IF up THEN r.q + 1 ELSE r.q, s |-> r.s]

\* the bits a product hi * 256 + lo has beyond 24
RECURSIVE ExcessBits(_, _)
ExcessBits(hi, u) == IF hi < 2^(16 + u) THEN u ELSE ExcessBits(hi, u + 1)

\* hi * 256 + lo rounded to 24 bits and scaled by 2^-s
RoundProduct(hi, lo, t, s) ==
  LET q  == hi * 2^(8 - t) + lo \div 2^t
      r  == lo % 2^t
      up == t > 0 /\ (2 * r > 2^t \/ (2 * r = 2^t /\ q % 2 = 1))
  IN  [m |-> IF up THEN q + 1 ELSE q, s |-> s - t]

\* k as f32 * f, for an integer 0 <= k <= 255; the exact product k * f.m is
\* kept as hi * 256 + lo so that it fits a 32-bit integer
F32MulInt(k, f) ==
  IF k = 0 \/ f.m = 0 THEN F32Zero
  ELSE LET hi == k * (f.m \div 256) + (k * (f.m % 256)) \div 256
           lo == (k * (f.m % 256)) % 256
       IN  RoundProduct(hi, lo, ExcessBits(hi, 0), f.s)

\* f.clamp(0.0, 255.0) as u8, and f as u8 (the cast truncates and saturates)
F32ToU8(f) ==
  IF f.m = 0 \/ f.s > 24 THEN 0
  ELSE IF f.s < 0 THEN 255
  ELSE IF f.m \div 2^(f.s) > 255 THEN 255
  ELSE f.m \div 2^(f.s)

(***************************************************************************)
(* Valid-range statistics, as both mappers compute them: the samples that  *)
(* differ from the hard-coded NODATA, folded with f32::min and f32::max    *)
(* from +inf and -inf.  `empty` says that the folds kept their start       *)
(* values (min = +inf, max = -inf); min and max are then not numbers.      *)
(***************************************************************************)
\* dem.iter().copied().filter(|&v| v != nodata).collect()
Valid(samples) == SelectSeq(samples, LAMBDA v : v # NODATA)

RECURSIVE FoldMin(_, _)
FoldMin(valid, i) ==
  IF i = Len(valid) THEN valid[i]
  ELSE LET rest == FoldMin(valid, i + 1) IN IF valid[i] < rest THEN valid[i] ELSE rest

RECURSIVE FoldMax(_, _)
FoldMax(valid, i) ==
  IF i = Len(valid) THEN valid[i]
  ELSE LET rest == FoldMax(valid, i + 1) IN IF valid[i] > rest THEN valid[i] ELSE rest

Stats(samples) ==
  LET valid == Valid(samples)
  IN  IF Len(valid) = 0 THEN [empty |-> TRUE, min |-> 0, max |-> 0]
      ELSE [empty |-> FALSE, min |-> FoldMin(valid, 1), max |-> FoldMax(valid, 1)]

(***************************************************************************)
(* dem_to_grayscale.  With max = min the scale 255.0 / 0.0 is +inf and the *)
(* product 0.0 * inf of every valid cell is NaN, which `as u8` turns into  *)
(* 0; `nan` records that a byte was derived that way.                      *)
(***************************************************************************)
\* ((v - min) * scale).clamp(0.0, 255.0) as u8 with scale = 255.0 / (max - min)
GrayByte(v, min, max) ==
  IF max = min THEN 0
  ELSE F32ToU8(F32MulInt(v - min, F32Div(255, max - min)))

dem_to_grayscale(samples) ==
  LET st == Stats(samples)
  IN  [kind  |-> "Ok",
       image |-> [i \in 1..Len(samples) |->
                    IF samples[i] = NODATA THEN 0 ELSE GrayByte(samples[i], st.min, st.max)],
       stats |-> st,
       nan   |-> ~st.empty /\ st.max = st.min]

(***************************************************************************)
(* dem_to_color_image.  colorgrad::turbo() is a crate outside the          *)
(* repository; TurboTable holds the three bytes (color.c * 255.0) as u8 of *)
(* its polynomial ramp at the normalised elevations k/d the grids of this  *)
(* model produce.  With max = min the normalised value 0.0 / 0.0 is NaN,   *)
(* which the ramp and the cast turn into three zero bytes.                 *)
(***************************************************************************)
TurboTable ==
  <<0, 1>> :> <<35, 23, 27>> @@ <<1, 1>> :> <<144, 12, 0>> @@
  <<1, 2>> :> <<149, 251, 81>> @@ <<1, 3>> :> <<46, 229, 174>> @@
  <<2, 3>> :> <<254, 185, 39>> @@ <<1, 4>> :> <<38, 188, 225>> @@
  <<3, 4>> :> <<255, 130, 29>> @@ <<1, 7>> :> <<64, 118, 245>> @@
  <<2, 7>> :> <<38, 208, 205>> @@ <<3, 7>> :> <<95, 252, 115>> @@
  <<4, 7>> :> <<203, 232, 57>> @@ <<5, 7>> :> <<255, 155, 33>> @@
  <<6, 7>> :> <<214, 57, 15>> @@ <<1, 8>> :> <<69, 105, 238>> @@
  <<3, 8>> :> <<63, 243, 147>> @@ <<5, 8>> :> <<236, 209, 46>> @@
  <<7, 8>> :> <<203, 47, 13>>

RECURSIVE GCD(_, _)
GCD(a, b) == IF b = 0 THEN a ELSE GCD(b, a % b)

\* grad.at(((v - min) / (max - min)) as f64), cast to three bytes
TurboAt(k, d) ==
  IF d = 0 THEN <<0, 0, 0>>
  ELSE TurboTable[<<k \div GCD(k, d), d \div GCD(k, d)>>]

ColorPixel(v, min, max) ==
  IF v = NODATA THEN <<0, 0, 0>> ELSE TurboAt(v - min, max - min)

dem_to_color_image(samples, width, height) ==
  LET st == Stats(samples)
  IN  [kind  |-> "Ok",
       image |-> [j \in 1..(3 * Len(samples)) |->
                    ColorPixel(samples[(j - 1) \div 3 + 1], st.min, st.max)[((j - 1) % 3) + 1]],
       stats |-> st,
       nan   |-> ~st.empty /\ st.max = st.min]

(***************************************************************************)
(* generate_hillshade.  Cells are addressed (x, y) from 0 as in the code;  *)
(* the buffer is 1-based.  ShadeTable holds (shade * 255.0) as u8 of lines *)
(* 196-204 for the gradient numerators (8 * dzdx, 8 * dzdy) that the grids *)
(* of this model produce (cells that are NODATA or 0, and the 3x3 grid     *)
(* 1..9).                                                                  *)
(***************************************************************************)
ShadeTable ==
  <<-399996, -199998>> :> 59 @@ <<-399996, 0>> :> 82 @@ <<-399996, 199998>> :> 120 @@
  <<-299997, -299997>> :> 54 @@ <<-299997, -99999>> :> 64 @@ <<-299997, 99999>> :> 108 @@
  <<-299997, 299997>> :> 151 @@ <<-199998, -399996>> :> 59 @@ <<-199998, -199998>> :> 54 @@
  <<-199998, 0>> :> 82 @@ <<-199998, 199998>> :> 151 @@ <<-199998, 399996>> :> 182 @@
  <<-99999, -299997>> :> 64 @@ <<-99999, -99999>> :> 54 @@ <<-99999, 99999>> :> 151 @@
  <<-99999, 299997>> :> 195 @@ <<0, -399996>> :> 82 @@ <<0, -199998>> :> 82 @@
  <<0, 0>> :> 0 @@ <<0, 199998>> :> 220 @@ <<0, 399996>> :> 220 @@
  <<8, 24>> :> 216 @@ <<99999, -299997>> :> 108 @@ <<99999, -99999>> :> 151 @@
  <<99999, 99999>> :> 249 @@ <<99999, 299997>> :> 238 @@ <<199998, -399996>> :> 120 @@
  <<199998, -199998>> :> 151 @@ <<199998, 0>> :> 220 @@ <<199998, 199998>> :> 249 @@
  <<199998, 399996>> :> 244 @@ <<299997, -299997>> :> 151 @@ <<299997, -99999>> :> 195 @@
  <<299997, 99999>> :> 238 @@ <<299997, 299997>> :> 249 @@ <<399996, -199998>> :> 182 @@
  <<399996, 0>> :> 220 @@ <<399996, 199998>> :> 244

ShadeByte(gx, gy) == ShadeTable[<<gx, gy>>]

\* the loops started at 0: the first row and column are computed too
InteriorRangeFromZero(n) == 0..(n - 2)

\* the rows, and the columns, the two loops visit: 1..n-1 (end excluded)
InteriorRange(n) == 1..(n - 2)

\* vec![0u8; width * height]
BlankImage(width, height) == [i \in 1..(width * height) |-> 0]

OutOfGrid(width, height, nx, ny) == nx < 0 \/ ny < 0 \/ nx >= width \/ ny >= height

\* the closure get(dx, dy) at cell (x, y)
Get(samples, width, height, x, y, dx, dy) ==
  IF OutOfGrid(width, height, x + dx, y + dy) THEN NODATA
  ELSE samples[(y + dy) * width + (x + dx) + 1]

Offsets == {<<dx, dy>> : dx \in {-1, 0, 1}, dy \in {-1, 0, 1}}

\* the indices into dem that cell (x, y) reads
Reads(width, height, x, y) ==
  {(y + o[2]) * width + (x + o[1]) + 1 :
     o \in {p \in Offsets : ~OutOfGrid(width, height, x + p[1], y + p[2])}}

ShadeCell(samples, width, height, x, y) ==
  LET g(dx, dy) == Get(samples, width, height, x, y, dx, dy)
      gx == (g(1, -1) + 2 * g(1, 0) + g(1, 1)) - (g(-1, -1) + 2 * g(-1, 0) + g(-1, 1))
      gy == (g(-1, 1) + 2 * g(0, 1) + g(1, 1)) - (g(-1, -1) + 2 * g(0, -1) + g(1, -1))
  IN  IF samples[y * width + x + 1] = NODATA THEN 0 ELSE ShadeByte(gx, gy)

\* Ok with the image; Panic when a cell indexes dem or image past its end.
\* `oob` says that some get(dx, dy) took its out-of-grid branch.
generate_hillshade(samples, width, height) ==
  LET cells == InteriorRange(width) \X InteriorRange(height)
      bad   == \E c \in cells :
                 \/ \E i \in Reads(width, height, c[1], c[2]) : i > Len(samples)
                 \/ c[2] * width + c[1] + 1 > width * height
  IN  IF bad THEN [kind |-> "Panic", image |-> <<>>, oob |-> FALSE]
      ELSE [kind  |-> "Ok",
            image |-> [i \in 1..(width * height) |->
                         IF /\ (i - 1) % width \in InteriorRange(width)
                            /\ (i - 1) \div width \in InteriorRange(height)
                         THEN ShadeCell(samples, width, height, (i - 1) % width, (i - 1) \div width)
                         ELSE BlankImage(width, height)[i]],
            oob   |-> \E c \in cells, o \in Offsets :
                        OutOfGrid(width, height, c[1] + o[1], c[2] + o[2])]

(***************************************************************************)
(* blend_with_hillshade: rgb.chunks(3) zipped with shade, so the shorter   *)
(* of the two ends the result.                                             *)
(***************************************************************************)
\* the intensity scaled by 256 instead of 255
BlendFactorOver256(s) == F32Div(s, 256)

\* s as f32 / 255.0
BlendFactor(s) == F32Div(s, 255)

\* (c as f32 * factor) as u8
BlendByte(c, s) == F32ToU8(F32MulInt(c, BlendFactor(s)))

blend_with_hillshade(rgb, shade) ==
  LET n == IF Len(rgb) < 3 * Len(shade) THEN Len(rgb) ELSE 3 * Len(shade)
  IN  [j \in 1..n |-> BlendByte(rgb[j], shade[(j - 1) \div 3 + 1])]

(***************************************************************************)
(* A run of main.  pc is the position of the closure handed to             *)
(* run_context: "start" (before read_asc_file), "match" (the buffer is     *)
(* parsed, the mode not yet matched), "show" (an ImageView is built),      *)
(* "parked" (the window shows the image and the thread is parked),         *)
(* "exit_err" (an Err was returned through `?`) and "panicked".            *)
(* probe keeps what the mapper of the run computed on its way: the         *)
(* statistics and whether a byte came from a NaN.                          *)
(***************************************************************************)
NoView == [channels |-> 0, width |-> 0, height |-> 0, data |-> <<>>]

NoProbe == [stats |-> [empty |-> TRUE, min |-> 0, max |-> 0], nan |-> FALSE]

\* ImageView::new(ImageInfo::mono8(ncols, nrows), leaked)
Mono8(data) == [channels |-> 1, width |-> ncols, height |-> nrows, data |-> data]

\* ImageView::new(ImageInfo::rgb8(ncols, nrows), leaked)
Rgb8(data) == [channels |-> 3, width |-> ncols, height |-> nrows, data |-> data]

KnownModes == {"grayscale", "color", "hillshade", "color+hillshade"}

Init ==
  /\ pc = "start"
  /\ file \in Files
  /\ mode \in Modes
  /\ dem = <<>>
  /\ ncols = 0
  /\ nrows = 0
  /\ image_view = NoView
  /\ error = ""
  /\ probe = NoProbe
  /\ call = None
  /\ ret = None

\* let (dem, ncols, nrows) = read_asc_file(&args.input_file)?;
ReadFile ==
  /\ pc = "start"
  /\ LET r == read_asc_file(file)
     IN  /\ pc' = CASE r.kind = "Ok" -> "match"
                    [] r.kind = "Err" -> "exit_err"
                    [] OTHER -> "panicked"
         /\ dem' = r.data
         /\ ncols' = r.ncols
         /\ nrows' = r.nrows
         /\ error' = r.error
  /\ UNCHANGED <<file, mode, image_view, probe, call, ret>>

MatchGrayscale ==
  /\ pc = "match"
  /\ mode = "grayscale"
  /\ LET g == dem_to_grayscale(dem)
     IN  /\ image_view' = Mono8(g.image)
         /\ probe' = [stats |-> g.stats, nan |-> g.nan]
  /\ pc' = "show"
  /\ UNCHANGED <<file, mode, dem, ncols, nrows, error, call, ret>>

MatchHillshade ==
  /\ pc = "match"
  /\ mode = "hillshade"
  /\ LET h == generate_hillshade(dem, ncols, nrows)
     IN  IF h.kind = "Ok"
         THEN /\ image_view' = Mono8(h.image)
              /\ pc' = "show"
              /\ error' = error
         ELSE /\ image_view' = image_view
              /\ pc' = "panicked"
              /\ error' = "index out of bounds"
  /\ UNCHANGED <<file, mode, dem, ncols, nrows, probe, call, ret>>

MatchColor ==
  /\ pc = "match"
  /\ mode = "color"
  /\ LET c == dem_to_color_image(dem, ncols, nrows)
     IN  /\ image_view' = Rgb8(c.image)
         /\ probe' = [stats |-> c.stats, nan |-> c.nan]
  /\ pc' = "show"
  /\ UNCHANGED <<file, mode, dem, ncols, nrows, error, call, ret>>

MatchColorHillshade ==
  /\ pc = "match"
  /\ mode = "color+hillshade"
  /\ LET c == dem_to_color_image(dem, ncols, nrows)
         h == generate_hillshade(dem, ncols, nrows)
     IN  /\ probe' = [stats |-> c.stats, nan |-> c.nan]
         /\ IF h.kind = "Ok"
            THEN /\ image_view' = Rgb8(blend_with_hillshade(c.image, h.image))
                 /\ pc' = "show"
                 /\ error' = error
            ELSE /\ image_view' = image_view
                 /\ pc' = "panicked"
                 /\ error' = "index out of bounds"
  /\ UNCHANGED <<file, mode, dem, ncols, nrows, call, ret>>

\* _ => panic!("Unknown mode. ...")
MatchUnknown ==
  /\ pc = "match"
  /\ mode \notin KnownModes
  /\ pc' = "panicked"
  /\ error' = "Unknown mode"
  /\ UNCHANGED <<file, mode, dem, ncols, nrows, image_view, probe, call, ret>>

\* create_window(..)?; window.set_image("dem", image_view)?; thread::park()
ShowImage ==
  /\ pc = "show"
  /\ pc' = "parked"
  /\ UNCHANGED <<file, mode, dem, ncols, nrows, image_view, error, probe, call, ret>>

\* the window or the image is refused by the display: the `?` returns the Err
ShowFails ==
  /\ pc = "show"
  /\ pc' = "exit_err"
  /\ error' = "display"
  /\ UNCHANGED <<file, mode, dem, ncols, nrows, image_view, probe, call, ret>>

Next ==
  \/ ReadFile
  \/ MatchGrayscale
  \/ MatchHillshade
  \/ MatchColor
  \/ MatchColorHillshade
  \/ MatchUnknown
  \/ ShowImage
  \/ ShowFails

Spec == Init /\ [][Next]_vars

(***************************************************************************)
(* The pure functions called on their own: generate_hillshade on every     *)
(* grid of NODATA and 0 cells with positive dimensions up to MaxDim and    *)
(* width * height samples, blend_with_hillshade on every pair of buffers   *)
(* up to MaxRgbLen and MaxShadeLen bytes.                                  *)
(***************************************************************************)
HillCells == {NODATA, 0}

RgbBytes == {0, 77, 255}

ShadeBytes == {0, 128, 255}

HillshadeCall(d, w, h) ==
  [fn |-> "generate_hillshade", dem |-> d, width |-> w, height |-> h,
   rgb |-> <<>>, shade |-> <<>>]

BlendCall(r, sh) ==
  [fn |-> "blend_with_hillshade", dem |-> <<>>, width |-> 0, height |-> 0,
   rgb |-> r, shade |-> sh]

InitFn ==
  /\ pc = "call"
  /\ \/ \E w \in 1..MaxDim, h \in 1..MaxDim :
          \E d \in [1..(w * h) -> HillCells] : call = HillshadeCall(d, w, h)
     \/ \E r \in SeqsUpTo(RgbBytes, MaxRgbLen), sh \in SeqsUpTo(ShadeBytes, MaxShadeLen) :
          call = BlendCall(r, sh)
  /\ ret = None
  /\ file = [readable |-> FALSE, lines |-> <<>>]
  /\ mode = ""
  /\ dem = <<>>
  /\ ncols = 0
  /\ nrows = 0
  /\ image_view = NoView
  /\ error = ""
  /\ probe = NoProbe

CallHillshade ==
  /\ pc = "call"
  /\ call.fn = "generate_hillshade"
  /\ ret' = generate_hillshade(call.dem, call.width, call.height)
  /\ pc' = "returned"
  /\ UNCHANGED <<file, mode, dem, ncols, nrows, image_view, error, probe, call>>

CallBlend ==
  /\ pc = "call"
  /\ call.fn = "blend_with_hillshade"
  /\ ret' = [kind |-> "Ok", image |-> blend_with_hillshade(call.rgb, call.shade), oob |-> FALSE]
  /\ pc' = "returned"
  /\ UNCHANGED <<file, mode, dem, ncols, nrows, image_view, error, probe, call>>

NextFn == CallHillshade \/ CallBlend

SpecFn == InitFn /\ [][NextFn]_vars

(***************************************************************************)
(* Properties.                                                             *)
(***************************************************************************)
Bytes(view) == view.data

\* the value of header line i, when the line is there and its value parses
HeaderFieldOk(f, i, type) ==
  /\ Len(f.lines) >= i
  /\ Len(f.lines[i]) > 0
  /\ IF type = "usize" THEN ParsesAsUsize(f.lines[i][Len(f.lines[i])])
     ELSE ParsesAsF32(f.lines[i][Len(f.lines[i])])

\* ncols, nrows or the no-data line is missing, blank or does not parse
HeaderMalformed(f) ==
  /\ f.readable
  /\ \/ ~HeaderFieldOk(f, 1, "usize")
     \/ ~HeaderFieldOk(f, 2, "usize")
     \/ ~HeaderFieldOk(f, 6, "f32")

\* a required header line is not in the file at all
HeaderLineMissing(f) == f.readable /\ Len(f.lines) < 6

\* the sentinel the header of a parsed file declares
Declared == file.lines[6][Len(file.lines[6])].val

\* C1: whenever read_asc_file returns Ok, the buffer it returns has exactly
\* ncols * nrows samples, whatever the number of data tokens in the file.
C1_BufferLengthIsNcolsTimesNrows ==
  pc = "match" => Len(dem) = ncols * nrows

\* C2: a file whose header lacks a required line, or has a numeric field that
\* does not parse, makes read_asc_file return an error value: the run never
\* panics and no buffer is returned.
C2_MalformedHeaderIsReturnedError ==
  (pc # "start" /\ HeaderMalformed(file)) =>
     /\ pc = "exit_err"
     /\ error \in {"ParseIntError", "ParseFloatError"}
     /\ dem = <<>>

\* C3: when no sample of the grid differs from the sentinel (the empty grid
\* included), the grayscale and the color mapper fail: no image is built.
C3_EmptyDataIsAnError ==
  (pc \in {"show", "parked"} /\ mode \in {"grayscale", "color"}) =>
     \E i \in 1..Len(dem) : dem[i] # Declared

\* C4: blend_with_hillshade fails, and returns no buffer, when the color
\* buffer is not 3 bytes per intensity byte.
C4_BlendRejectsMismatch ==
  (pc = "returned" /\ call.fn = "blend_with_hillshade"
     /\ Len(call.rgb) # 3 * Len(call.shade)) =>
     ret.kind = "Err"

\* C5: a mode other than the four known ones ends the run with a returned
\* UnknownModeError: the match never panics and builds no image.
C5_UnknownModeIsReturnedError ==
  [][(pc = "match" /\ mode \notin KnownModes) =>
       (pc' = "exit_err" /\ error' = "UnknownModeError" /\ image_view' = NoView)]_vars

\* the statistics over the samples that differ from the sentinel s
StatsExcluding(samples, s) ==
  LET valid == SelectSeq(samples, LAMBDA v : v # s)
  IN  IF Len(valid) = 0 THEN [empty |-> TRUE, min |-> 0, max |-> 0]
      ELSE [empty |-> FALSE, min |-> FoldMin(valid, 1), max |-> FoldMax(valid, 1)]

\* C6: every cell equal to the sentinel the header declares is left out of
\* the min/max statistics and is rendered as zero by the grayscale, the
\* color and the hillshade mapper, whatever the declared sentinel is
\* (stated on the grids in which -99999 occurs only if it is the declared
\* sentinel, so that the statistics are those over the other cells).
C6_DeclaredSentinelIsHonoured ==
  (pc = "show" /\ (Declared = NODATA \/ \A i \in 1..Len(dem) : dem[i] # NODATA)) =>
     /\ mode \in {"grayscale", "color"} => probe.stats = StatsExcluding(dem, Declared)
     /\ mode \in {"grayscale", "hillshade"} =>
          \A i \in 1..Len(dem) :
             (i <= Len(Bytes(image_view)) /\ dem[i] = Declared) => Bytes(image_view)[i] = 0
     /\ mode = "color" =>
          \A i \in 1..Len(dem) :
             dem[i] = Declared =>
               \A c \in 1..3 : Bytes(image_view)[3 * (i - 1) + c] = 0

\* round(clamp(k * 255 / d, 0, 255)) for 0 <= k <= d, halves rounded up
RoundedGray(k, d) == (2 * k * 255 + d) \div (2 * d)

\* C7: on a grid with min < max the grayscale mapper outputs one byte per
\* cell, 0 for a sentinel cell and round(clamp((v - min) * 255 / (max - min),
\* 0, 255)) for any other, so that min gives 0 and max gives 255.
C7_GrayscaleIsRoundedRescale ==
  (pc = "show" /\ mode = "grayscale" /\ Declared = NODATA
     /\ ~probe.stats.empty /\ probe.stats.min < probe.stats.max) =>
     /\ Len(Bytes(image_view)) = Len(dem)
     /\ \A i \in 1..Len(dem) :
          Bytes(image_view)[i] =
            IF dem[i] = NODATA THEN 0
            ELSE RoundedGray(dem[i] - probe.stats.min, probe.stats.max - probe.stats.min)
     /\ \A i \in 1..Len(dem) :
          /\ dem[i] = probe.stats.min => Bytes(image_view)[i] = 0
          /\ dem[i] = probe.stats.max => Bytes(image_view)[i] = 255

IsBorder(i, width, height) ==
  LET x == (i - 1) % width
      y == (i - 1) \div width
  IN  x = 0 \/ y = 0 \/ x = width - 1 \/ y = height - 1

\* C8: for positive width and height and width * height samples,
\* generate_hillshade returns width * height bytes, every border cell is 0
\* (also when width or height is 1 or 2), and no neighbourhood lookup of an
\* interior cell falls outside the grid.
C8_HillshadeBordersAreZero ==
  (pc = "returned" /\ call.fn = "generate_hillshade") =>
     /\ ret.kind = "Ok"
     /\ Len(ret.image) = call.width * call.height
     /\ \A i \in 1..Len(ret.image) :
          IsBorder(i, call.width, call.height) => ret.image[i] = 0
     /\ ~ret.oob

\* a 3x3 grid whose only interior cell is lit
C8_Witness ==
  /\ pc = "returned"
  /\ call.fn = "generate_hillshade"
  /\ call.width = 3
  /\ call.height = 3
  /\ ret.kind = "Ok"
  /\ ret.image[5] > 0

AllEqual(bytes, b) == \A i \in 1..Len(bytes) : bytes[i] = b

\* C9: for a color buffer of 3 bytes per intensity byte, blend_with_hillshade
\* returns the color buffer itself when every intensity byte is 255, and as
\* many zero bytes when every intensity byte is 0.
C9_BlendIdentityAndZero ==
  (pc = "returned" /\ call.fn = "blend_with_hillshade"
     /\ Len(call.rgb) = 3 * Len(call.shade)) =>
     /\ AllEqual(call.shade, 255) => ret.image = call.rgb
     /\ AllEqual(call.shade, 0) =>
          (Len(ret.image) = Len(call.rgb) /\ AllEqual(ret.image, 0))

\* two pixels of mixed colors blended with full intensity
C9_Witness ==
  /\ pc = "returned"
  /\ call.fn = "blend_with_hillshade"
  /\ call.shade = <<255, 255>>
  /\ call.rgb = <<77, 255, 0, 255, 77, 77>>
  /\ ret.image = call.rgb

\* C10: on a grid whose valid elevations are all equal the grayscale and the
\* color mapper divide by no zero: no output byte comes from a NaN or an
\* infinite intermediate value.
C10_FlatGridHasNoNaN ==
  (pc = "show" /\ mode \in {"grayscale", "color"}
     /\ ~probe.stats.empty /\ probe.stats.min = probe.stats.max) =>
     ~probe.nan

\* the data tokens of a file in file order: those of line 7, then of line 8, ...
RECURSIVE TokensFrom(_, _)
TokensFrom(lines, from) ==
  IF from > Len(lines) THEN <<>> ELSE lines[from] \o TokensFrom(lines, from + 1)

ReadErrors ==
  {"io::Error", "ParseIntError", "ParseFloatError",
   "unwrap on None: no line", "unwrap on None: no token"}

====
